---- MODULE Spec2Model ----
(***************************************************************************)
(* Model of app.py: a Streamlit coaching dashboard over a SQLite store.    *)
(* Every user interaction reruns the script top to bottom, single          *)
(* threaded: a button handler runs to completion, and the views (the       *)
(* attendance listing of tab 2, the report payload of tab 5) are           *)
(* recomputed from the store on every run, so they are operators over the  *)
(* state.                                                                  *)
(*                                                                         *)
(* Text that the code inspects (names, the note's players field, the       *)
(* report filter) is a sequence of one-character strings; text that the    *)
(* code only stores (memo) is an opaque string.  A nullable column is      *)
(* None (<<>>) or Some(v) (<<v>>).  A percent is kept in tenths            *)
(* (850 is 85.0).  Dates are day numbers; the clock `now` counts days.     *)
(* Columns that no handler reads and no property mentions (grade,          *)
(* position, team, title, ...) are not carried.                            *)
(***************************************************************************)
EXTENDS Integers, Sequences, FiniteSets, TLC

VARIABLES
    now,              \* the wall clock read by now_iso() and dt.date.today()
    players,          \* table players, in rowid order
    sessions,         \* table sessions
    attendance,       \* table attendance
    video_notes,      \* table video_notes
    metrics,          \* table metrics
    parent_msgs,      \* table parent_msgs
    sqlite_sequence,  \* AUTOINCREMENT's high-water mark per table
    r_player,         \* tab 5 widget: report target player
    days,             \* tab 5 widget: last N days
    m_made,           \* tab 4 widget: numerator
    m_attempt,        \* tab 4 widget: denominator
    m_scheme,         \* tab 4 widget: grading scheme label
    openai_api_key,   \* sidebar widget: API key
    ai                \* the last ai_feedback call: what the service did and what came back

vars == <<now, players, sessions, attendance, video_notes, metrics, parent_msgs,
          sqlite_sequence, r_player, days, m_made, m_attempt, m_scheme,
          openai_api_key, ai>>

dbVars == <<players, sessions, attendance, video_notes, metrics, parent_msgs, sqlite_sequence>>
reportWidgets == <<r_player, days>>
metricWidgets == <<m_made, m_attempt, m_scheme>>
aiVars == <<openai_api_key, ai>>

-----------------------------------------------------------------------------
(* Bounds of the model *)

MaxNow == 1            \* the clock runs over 0..MaxNow
MaxRowsEver == 5       \* rows ever inserted (players, sessions, attendance)
MaxStoreRows == 5      \* rows ever inserted, over all six tables
MaxMade == 54          \* numerators 0..MaxMade (metric computation)
MaxAttempt == 53       \* denominators 0..MaxAttempt (metric computation)
MaxMetricClicks == 2   \* clicks of the metric save button with the same widget values
MaxCapRows == 52       \* rows of one stream (payload cap)
MaxReportRows == 3     \* rows ever inserted, over all tables (report)
MaxPast == 2           \* the date widgets reach back to day -MaxPast
MaxLedgerRows == 4     \* rows ever inserted, over all six tables (all five tabs together)

-----------------------------------------------------------------------------
(* Values *)

None == <<>>
Some(v) == <<v>>

Max(S) == CHOOSE x \in S : \A y \in S : y <= x

Range(s) == {s[i] : i \in 1..Len(s)}

Abs(x) == IF x < 0 THEN -x ELSE x

IsSpace(c) == c = " "

\* str.strip(): drop leading and trailing whitespace
RECURSIVE LStrip(_)
LStrip(s) == IF s # <<>> /\ IsSpace(Head(s)) THEN LStrip(Tail(s)) ELSE s

RECURSIVE RStrip(_)
RStrip(s) == IF s # <<>> /\ IsSpace(s[Len(s)]) THEN RStrip(SubSeq(s, 1, Len(s) - 1)) ELSE s

Strip(s) == RStrip(LStrip(s))

\* dt.date.today()
today == now

-----------------------------------------------------------------------------
(* The store: db_init's tables and the SQL the handlers run *)

Tables == {"players", "sessions", "attendance", "video_notes", "metrics", "parent_msgs"}

\* db_conn sets the journal mode and nothing else: SQLite leaves foreign keys
\* unenforced unless a connection runs PRAGMA foreign_keys=ON
foreign_keys == FALSE

\* INTEGER PRIMARY KEY without AUTOINCREMENT: one more than the largest rowid the
\* table holds now
NextIdFromRows(t) ==
    LET table == CASE t = "players" -> players
                   [] t = "sessions" -> sessions
                   [] t = "attendance" -> attendance
                   [] t = "video_notes" -> video_notes
                   [] t = "metrics" -> metrics
                   [] OTHER -> parent_msgs
    IN  IF table = <<>> THEN 1 ELSE Max({table[i].id : i \in 1..Len(table)}) + 1

\* INTEGER PRIMARY KEY AUTOINCREMENT: one more than the largest rowid the table ever held
NextId(t) == sqlite_sequence[t] + 1

Ids(table) == {table[i].id : i \in 1..Len(table)}

\* the row of the table with this id (ids are primary keys)
RowOf(table, id) == table[CHOOSE i \in 1..Len(table) : table[i].id = id]

\* INSERT INTO t(...) VALUES(...): a new row at the end, its id taken from the sequence
Insert(table, t, row) == Append(table, [id |-> NextId(t)] @@ row)

\* DELETE FROM t WHERE id=?
DeleteWhereId(table, id) == SelectSeq(table, LAMBDA r : r.id # id)

\* rows of `table` whose column `col` refers to id (the FOREIGN KEY clauses of db_init)
Referencing(table, col, id) == {i \in 1..Len(table) : table[i][col] = id}

\* the row of the attendance table that holds the UNIQUE(session_id, player_id) key
AttIndex(sid, pid) ==
    {i \in 1..Len(attendance) : attendance[i].session_id = sid /\ attendance[i].player_id = pid}

\* a plain INSERT into a table without the UNIQUE key: every statement adds a row
UpsertPlainInsert(table, seq, sid, pid, v, at) ==
    [table |-> Append(table, [id |-> seq + 1, session_id |-> sid, player_id |-> pid,
                              present |-> v.present, intensity |-> v.intensity,
                              mood |-> v.mood, memo |-> v.memo, created_at |-> at]),
     seq |-> seq + 1]

\* INSERT OR REPLACE: the conflicting row is deleted and a new one inserted in its place
UpsertOrReplace(table, seq, sid, pid, v, at) ==
    UpsertPlainInsert(SelectSeq(table, LAMBDA r : ~(r.session_id = sid /\ r.player_id = pid)),
                      seq, sid, pid, v, at)

\* INSERT ... ON CONFLICT(session_id, player_id) DO UPDATE SET present, intensity, mood, memo
\* returns the table and the sequence after one statement
Upsert(table, seq, sid, pid, v, at) ==
    LET hit == {i \in 1..Len(table) : table[i].session_id = sid /\ table[i].player_id = pid}
    IN  IF hit = {}
        THEN [table |-> Append(table, [id |-> seq + 1, session_id |-> sid, player_id |-> pid,
                                       present |-> v.present, intensity |-> v.intensity,
                                       mood |-> v.mood, memo |-> v.memo, created_at |-> at]),
              seq |-> seq + 1]
        ELSE [table |-> [i \in 1..Len(table) |->
                            IF i \in hit
                            THEN [table[i] EXCEPT !.present = v.present,
                                                  !.intensity = v.intensity,
                                                  !.mood = v.mood,
                                                  !.memo = v.memo]
                            ELSE table[i]],
              seq |-> seq]

-----------------------------------------------------------------------------
(* Inputs the user can type *)

\* names and filters as typed, with and without surrounding blanks; "." is an
\* ordinary character of a name
NameInputs == {<<>>, <<" ">>, <<"a", "b">>, <<" ", "a", "b">>, <<"a", ".">>}

\* st.checkbox / st.slider(1, 10) / st.text_input values of one attendance line
AttInputs == {[present |-> 1, intensity |-> 6, mood |-> 6, memo |-> ""],
              [present |-> 0, intensity |-> 9, mood |-> 3, memo |-> "m"]}

-----------------------------------------------------------------------------
(* Handlers *)

\* time passes between two runs of the script
Tick ==
    /\ now < MaxNow
    /\ now' = now + 1
    /\ UNCHANGED <<dbVars, reportWidgets, metricWidgets, aiVars>>

\* tab 1, "선수 추가": disabled while the name is blank
AddPlayer(name) ==
    /\ Strip(name) # <<>>
    /\ players' = Insert(players, "players", [name |-> Strip(name)])
    /\ sqlite_sequence' = [sqlite_sequence EXCEPT !["players"] = NextId("players")]
    /\ UNCHANGED <<now, sessions, attendance, video_notes, metrics, parent_msgs,
                   reportWidgets, metricWidgets, aiVars>>

\* a delete that cascades to the attendance rows of the player
DeletePlayerCascade(del_id) ==
    /\ del_id > 0
    /\ players' = DeleteWhereId(players, del_id)
    /\ attendance' = SelectSeq(attendance, LAMBDA r : r.player_id # del_id)
    /\ UNCHANGED <<now, sessions, video_notes, metrics, parent_msgs,
                   sqlite_sequence, reportWidgets, metricWidgets, aiVars>>

\* tab 1, "삭제 실행": disabled while del_id <= 0.  With foreign keys enforced the
\* DELETE of a referenced player would raise and change nothing.
DeletePlayer(del_id) ==
    /\ del_id > 0
    /\ players' = IF foreign_keys /\ Referencing(attendance, "player_id", del_id) # {}
                  THEN players
                  ELSE DeleteWhereId(players, del_id)
    /\ UNCHANGED <<now, sessions, attendance, video_notes, metrics, parent_msgs,
                   sqlite_sequence, reportWidgets, metricWidgets, aiVars>>

\* tab 2, "세션 저장"
SaveSession(sdate) ==
    /\ sessions' = Insert(sessions, "sessions", [session_date |-> sdate])
    /\ sqlite_sequence' = [sqlite_sequence EXCEPT !["sessions"] = NextId("sessions")]
    /\ UNCHANGED <<now, players, attendance, video_notes, metrics, parent_msgs,
                   reportWidgets, metricWidgets, aiVars>>

\* the for loop of "출석 기록 저장": one upsert per line of the form, in order
RECURSIVE UpsertAll(_, _, _, _, _, _)
UpsertAll(table, seq, sid, pids, vals, at) ==
    IF pids = <<>>
    THEN [table |-> table, seq |-> seq]
    ELSE LET one == Upsert(table, seq, sid, Head(pids), vals[Head(pids)], at)
         IN  UpsertAll(one.table, one.seq, sid, Tail(pids), vals, at)

\* code points of the characters the inputs use, for ORDER BY name
Code(c) == CASE c = " " -> 32 [] c = "." -> 46 [] c = "a" -> 97 [] c = "b" -> 98 [] OTHER -> 99

\* s < t as SQLite's BINARY collation compares two texts
RECURSIVE TextLess(_, _)
TextLess(s, t) ==
    IF t = <<>> THEN FALSE
    ELSE IF s = <<>> THEN TRUE
    ELSE IF Code(Head(s)) # Code(Head(t)) THEN Code(Head(s)) < Code(Head(t))
    ELSE TextLess(Tail(s), Tail(t))

\* SELECT ... ORDER BY name ASC over rows that carry a name: equal names stay in scan order
RECURSIVE OrderByName(_)
OrderByName(rows) ==
    IF rows = <<>> THEN <<>>
    ELSE LET first == CHOOSE i \in 1..Len(rows) :
                          /\ \A j \in 1..Len(rows) : ~TextLess(rows[j].name, rows[i].name)
                          /\ \A j \in 1..(i - 1) : rows[j].name # rows[i].name
         IN  <<rows[first]>> \o
             OrderByName(SubSeq(rows, 1, first - 1) \o SubSeq(rows, first + 1, Len(rows)))

\* the form's lines: SELECT id, name, grade, position FROM players ORDER BY name ASC
FormPlayerIds == LET q == OrderByName(players) IN [i \in 1..Len(q) |-> q[i].id]

\* tab 2, "출석 기록 저장": shown when a session is chosen and some player exists;
\* vals gives the widgets' values for each listed player
SaveAttendance(session_id, vals) ==
    /\ session_id \in Ids(sessions)
    /\ players # <<>>
    /\ LET done == UpsertAll(attendance, sqlite_sequence["attendance"], session_id,
                             FormPlayerIds, vals, now)
       IN  /\ attendance' = done.table
           /\ sqlite_sequence' = [sqlite_sequence EXCEPT !["attendance"] = done.seq]
    /\ UNCHANGED <<now, players, sessions, video_notes, metrics, parent_msgs,
                   reportWidgets, metricWidgets, aiVars>>

\* tab 3, "영상 노트 저장": disabled while the note is blank
SaveNote(ndate, players_text, note) ==
    /\ Strip(note) # <<>>
    /\ video_notes' = Insert(video_notes, "video_notes",
                             [note_date |-> ndate, players |-> players_text, note |-> Strip(note)])
    /\ sqlite_sequence' = [sqlite_sequence EXCEPT !["video_notes"] = NextId("video_notes")]
    /\ UNCHANGED <<now, players, sessions, attendance, metrics, parent_msgs,
                   reportWidgets, metricWidgets, aiVars>>

\* tab 5, "메시지 저장": disabled while the player or the message is blank
SaveMsg(msg_date, pm_player, message) ==
    /\ Strip(pm_player) # <<>>
    /\ Strip(message) # <<>>
    /\ parent_msgs' = Insert(parent_msgs, "parent_msgs",
                             [msg_date |-> msg_date, player |-> Strip(pm_player),
                              message |-> Strip(message)])
    /\ sqlite_sequence' = [sqlite_sequence EXCEPT !["parent_msgs"] = NextId("parent_msgs")]
    /\ UNCHANGED <<now, players, sessions, attendance, video_notes, metrics,
                   reportWidgets, metricWidgets, aiVars>>

-----------------------------------------------------------------------------
(* Tab 4: percent and grade *)

SchemeLabels == {"rebound_total (85/75/65/55)", "alt (82/72/62/52)"}

\* "rebound_total" if scheme.startswith("rebound_total") else "alt"
SchemeOf(label) == IF label = "rebound_total (85/75/65/55)" THEN "rebound_total" ELSE "alt"

\* the thresholds compared with > instead of >=
GradeStrictlyAbove(p, scheme) ==
    IF scheme = "rebound_total"
    THEN IF p > 850 THEN "A"
         ELSE IF p > 750 THEN "B"
         ELSE IF p > 650 THEN "C"
         ELSE IF p > 550 THEN "D"
         ELSE "F"
    ELSE IF p > 820 THEN "A"
         ELSE IF p > 720 THEN "B"
         ELSE IF p > 620 THEN "C"
         ELSE IF p > 520 THEN "D"
         ELSE "F"

\* grade_by_percent, p in tenths of a percent
grade_by_percent(p, scheme) ==
    IF scheme = "rebound_total"
    THEN IF p >= 850 THEN "A"
         ELSE IF p >= 750 THEN "B"
         ELSE IF p >= 650 THEN "C"
         ELSE IF p >= 550 THEN "D"
         ELSE "F"
    ELSE IF p >= 820 THEN "A"
         ELSE IF p >= 720 THEN "B"
         ELSE IF p >= 620 THEN "C"
         ELSE IF p >= 520 THEN "D"
         ELSE "F"

\* round((made / attempt) * 100, 1), in tenths.  The quotient and the product are
\* doubles: away from a tie the result is the nearest tenth; on an exact tie
\* x.x5 the rounding error of the division decides the side (1/16 gives 6.2,
\* 3/16 gives 18.8, 23/80 gives 28.7), so both neighbours are possible results.
Round1(made, attempt) ==
    LET q == (made * 1000) \div attempt
        r == (made * 1000) % attempt
    IN  IF 2 * r < attempt THEN {q}
        ELSE IF 2 * r > attempt THEN {q + 1}
        ELSE {q, q + 1}

\* percent initialised to 0 instead of None
PercentsZeroDefault(made, attempt) ==
    IF attempt > 0 THEN {Some(p) : p \in Round1(made, attempt)} ELSE {Some(0)}

\* the values of percent the script can compute (lines 410-413)
Percents(made, attempt) ==
    IF attempt > 0 THEN {Some(p) : p \in Round1(made, attempt)} ELSE {None}

\* the grade computed next to it (lines 411-414)
GradeFor(percent, attempt, label) ==
    IF attempt > 0 THEN Some(grade_by_percent(percent[1], SchemeOf(label))) ELSE None

\* the row "지표 저장" inserts (lines 419-428)
MetricRow(mdate, player, made, attempt, label, percent) ==
    [metric_date |-> mdate,
     player |-> Strip(player),
     made |-> IF attempt > 0 THEN Some(made) ELSE None,
     attempt |-> IF attempt > 0 THEN Some(attempt) ELSE None,
     percent |-> percent,
     grade |-> GradeFor(percent, attempt, label)]

\* a save that also recomputes the grade of every stored row under the scheme now chosen
SaveMetricRegrade(mdate, player, made, attempt, label) ==
    /\ Strip(player) # <<>>
    /\ m_made' = made
    /\ m_attempt' = attempt
    /\ m_scheme' = label
    /\ \E percent \in Percents(made, attempt) :
          metrics' = Insert([i \in 1..Len(metrics) |->
                                [metrics[i] EXCEPT !.grade =
                                    IF metrics[i].percent = None THEN None
                                    ELSE Some(grade_by_percent(metrics[i].percent[1],
                                                               SchemeOf(label)))]],
                            "metrics", MetricRow(mdate, player, made, attempt, label, percent))
    /\ sqlite_sequence' = [sqlite_sequence EXCEPT !["metrics"] = NextId("metrics")]
    /\ UNCHANGED <<now, players, sessions, attendance, video_notes, parent_msgs,
                   reportWidgets, aiVars>>

\* tab 4, "지표 저장" with the widgets holding these values: disabled while the player is blank
SaveMetric(mdate, player, made, attempt, label) ==
    /\ Strip(player) # <<>>
    /\ m_made' = made
    /\ m_attempt' = attempt
    /\ m_scheme' = label
    /\ \E percent \in Percents(made, attempt) :
          metrics' = Insert(metrics, "metrics",
                            MetricRow(mdate, player, made, attempt, label, percent))
    /\ sqlite_sequence' = [sqlite_sequence EXCEPT !["metrics"] = NextId("metrics")]
    /\ UNCHANGED <<now, players, sessions, attendance, video_notes, parent_msgs,
                   reportWidgets, aiVars>>

-----------------------------------------------------------------------------
(* Tab 2: the stored attendance of one session *)

\* the same query with LEFT JOIN players: an attendance row without its player is
\* kept, with no player columns
AttendanceLeftJoin ==
    LET matched == SelectSeq(attendance, LAMBDA a : a.session_id \in Ids(sessions))
    IN  [i \in 1..Len(matched) |->
            [a |-> matched[i],
             p |-> IF matched[i].player_id \in Ids(players)
                   THEN Some(RowOf(players, matched[i].player_id)) ELSE None,
             s |-> Some(RowOf(sessions, matched[i].session_id))]]

\* FROM attendance a JOIN players p ON p.id=a.player_id JOIN sessions s ON s.id=a.session_id:
\* inner joins, so an attendance row appears once for each player row and session row
\* it matches.  p and s are the matched rows (Some(row)); the scan is by attendance rowid.
AttendanceJoin ==
    LET matched == SelectSeq(attendance, LAMBDA a : /\ a.player_id \in Ids(players)
                                                     /\ a.session_id \in Ids(sessions))
    IN  [i \in 1..Len(matched) |->
            [a |-> matched[i],
             p |-> Some(RowOf(players, matched[i].player_id)),
             s |-> Some(RowOf(sessions, matched[i].session_id))]]

\* SELECT s.session_date, p.name, a.present, a.intensity, a.mood, a.memo
AttColumns(j) ==
    [session_date |-> j.s[1].session_date, name |-> j.p[1].name, present |-> j.a.present,
     intensity |-> j.a.intensity, mood |-> j.a.mood, memo |-> j.a.memo]

\* the joined rows behind the listing "저장된 출석/컨디션": WHERE a.session_id=?
ListingJoin(session_id) == SelectSeq(AttendanceJoin, LAMBDA j : j.a.session_id = session_id)

\* adf (lines 339-346): ... ORDER BY p.name ASC
AttendanceListing(session_id) ==
    LET q == ListingJoin(session_id)
    IN  OrderByName([i \in 1..Len(q) |-> AttColumns(q[i])])

-----------------------------------------------------------------------------
(* Tab 5: the report payload *)

DefaultDays == 7
PayloadCap == 50

\* end = dt.date.today(); start = end - dt.timedelta(days=int(days))
ReportEnd == today
ReportStart == today - days

\* WHERE date(x) BETWEEN date(start) AND date(end)
InWindow(d) == ReportStart <= d /\ d <= ReportEnd

\* ORDER BY col DESC: rows with equal keys stay in scan (rowid) order, as SQLite's sorter leaves them
RECURSIVE OrderByDesc(_, _)
OrderByDesc(rows, col) ==
    IF rows = <<>> THEN <<>>
    ELSE LET m == Max({rows[i][col] : i \in 1..Len(rows)})
         IN  SelectSeq(rows, LAMBDA r : r[col] = m) \o
             OrderByDesc(SelectSeq(rows, LAMBDA r : r[col] # m), col)

\* the joined rows behind att (lines 478-484); no ORDER BY: the scan order of attendance
ReportJoin == SelectSeq(AttendanceJoin, LAMBDA j : InWindow(j.s[1].session_date))

att == [i \in 1..Len(ReportJoin) |-> AttColumns(ReportJoin[i])]

\* notes (lines 486-491)
NoteColumns(r) == [note_date |-> r.note_date, players |-> r.players, note |-> r.note]

notes ==
    LET q == OrderByDesc(SelectSeq(video_notes, LAMBDA r : InWindow(r.note_date)), "note_date")
    IN  [i \in 1..Len(q) |-> NoteColumns(q[i])]

\* metrics (lines 493-498), named metrics_q next to the table it reads
MetricColumns(r) ==
    [metric_date |-> r.metric_date, player |-> r.player, made |-> r.made,
     attempt |-> r.attempt, percent |-> r.percent, grade |-> r.grade]

metrics_q ==
    LET q == OrderByDesc(SelectSeq(metrics, LAMBDA r : InWindow(r.metric_date)), "metric_date")
    IN  [i \in 1..Len(q) |-> MetricColumns(q[i])]

\* re.search(pat, s) for the patterns the inputs can spell: "." matches any
\* character, every other character of the inputs matches itself
RegexMatchAt(s, pat, i) ==
    \A k \in 1..Len(pat) : pat[k] = "." \/ s[i + k - 1] = pat[k]

\* Series.str.contains(pat): pandas' default is regex=True
StrContains(s, pat) ==
    \E i \in 1..(Len(s) - Len(pat) + 1) : RegexMatchAt(s, pat, i)

\* r_player.strip()
target == Strip(r_player)

\* lines 500-505
att_f == IF target # <<>> THEN SelectSeq(att, LAMBDA r : r.name = target) ELSE att

notes_f == IF target # <<>>
           THEN SelectSeq(notes, LAMBDA r : StrContains(r.players, target))
           ELSE notes

metrics_f == IF target # <<>> THEN SelectSeq(metrics_q, LAMBDA r : r.player = target) ELSE metrics_q

\* DataFrame.tail(n): the last n rows
TailN(df, n) == IF Len(df) <= n THEN df ELSE SubSeq(df, Len(df) - n + 1, Len(df))

\* payload (lines 507-515)
payload ==
    [period |-> [start |-> ReportStart, end |-> ReportEnd],
     target_player |-> IF target # <<>> THEN Some(target) ELSE None,
     attendance_summary |-> TailN(att_f, PayloadCap),
     video_notes |-> TailN(notes_f, PayloadCap),
     metrics |-> TailN(metrics_f, PayloadCap)]

\* the user edits the report widgets: st.number_input("최근 N일", min_value=1, max_value=60)
SetReportInputs(player, n) ==
    /\ n >= 1 /\ n <= 60
    /\ r_player' = player
    /\ days' = n
    /\ UNCHANGED <<now, dbVars, metricWidgets, aiVars>>

-----------------------------------------------------------------------------
(* ai_feedback *)

Tones == {"coach", "player", "parent"}

\* the system prompt chosen from the tone (lines 184-189)
SystemPrompt(tone) == IF tone = "coach" THEN "coach-analyst"
                      ELSE IF tone = "player" THEN "player-mentor"
                      ELSE "parent-counsel"

\* what an attribute of the response can hold
Texts == {<<>>, <<" ">>, <<"h", "i">>, <<" ", "h", "i", " ">>}
AttrValues == {[type |-> "str", val |-> t] : t \in Texts}
                  \cup {[type |-> "none", val |-> <<>>], [type |-> "int", val |-> <<"5">>],
                        [type |-> "int", val |-> <<>>]}

\* the nested list of typed content chunks a response may carry under .output
ChunkLists == {<<>>,
               <<[type |-> "output_text", text |-> <<"h", "i">>]>>,
               <<[type |-> "output_text", text |-> <<" ", "h">>],
                 [type |-> "output_text", text |-> <<"i", " ">>]>>,
               <<[type |-> "reasoning", text |-> <<>>],
                 [type |-> "output_text", text |-> <<"h", "i">>]>>}

\* responses: an SDK object with or without the convenience attribute output_text
Responses == [has_output_text : BOOLEAN, output_text : AttrValues, output : ChunkLists]

\* what the environment does with one call of ai_feedback: the import or the
\* request's construction fails, the call raises (transport, timeout, status), or
\* a response comes back
ServiceOutcomes == {[kind |-> "fails_before_call"], [kind |-> "call_raises"]}
                       \cup {[kind |-> "response", resp |-> r] : r \in Responses}

\* bool(x) of an attribute value
Truthy(v) == CASE v.type = "str" -> v.val # <<>>
               [] v.type = "int" -> v.val # <<>>
               [] OTHER -> FALSE

\* getattr(resp, "output_text", "") or ""
GetOutputText(resp) ==
    IF resp.has_output_text /\ Truthy(resp.output_text)
    THEN resp.output_text
    ELSE [type |-> "str", val |-> <<>>]

\* lines 210-211 on a response; raises AttributeError when text has no strip()
ExtractText(resp) ==
    LET text == GetOutputText(resp)
    IN  IF text.type # "str" THEN [raised |-> TRUE, ret |-> None]
        ELSE IF Strip(text.val) # <<>> THEN [raised |-> FALSE, ret |-> Some(Strip(text.val))]
        ELSE [raised |-> FALSE, ret |-> None]

\* the body of the try block (lines 181-211): what it returns, whether it raised,
\* and how many times client.responses.create was invoked
TryBody(tone, svc) ==
    IF svc.kind = "fails_before_call" THEN [raised |-> TRUE, ret |-> None, calls |-> 0]
    ELSE IF svc.kind = "call_raises" THEN [raised |-> TRUE, ret |-> None, calls |-> 1]
    ELSE [raised |-> ExtractText(svc.resp).raised, ret |-> ExtractText(svc.resp).ret, calls |-> 1]

\* ai_feedback without its try/except
ai_feedback_unguarded(openai_key, tone, svc) ==
    IF openai_key = ""
    THEN [raised |-> FALSE, ret |-> None, calls |-> 0]
    ELSE TryBody(tone, svc)

\* ai_feedback(openai_key, payload, tone): raised tells whether an exception reaches the caller
ai_feedback(openai_key, tone, svc) ==
    IF openai_key = ""
    THEN [raised |-> FALSE, ret |-> None, calls |-> 0]
    ELSE LET body == TryBody(tone, svc)
         IN  IF body.raised
             THEN [raised |-> FALSE, ret |-> None, calls |-> body.calls]   \* except Exception
             ELSE body

KeyInputs == {"", "sk-1"}

\* the sidebar's key field
SetApiKey(k) ==
    /\ openai_api_key' = k
    /\ UNCHANGED <<now, dbVars, reportWidgets, metricWidgets, ai>>

NoCall == [called |-> FALSE, key |-> "", system |-> "", svc |-> [kind |-> "none"],
           raised |-> FALSE, ret |-> None, calls |-> 0]

\* tab 5, "AI 피드백 생성": fb = ai_feedback(openai_api_key, payload, tone=tone)
ClickAiFeedback(tone, svc) ==
    /\ LET out == ai_feedback(openai_api_key, tone, svc)
       IN  ai' = [called |-> TRUE, key |-> openai_api_key,
                  system |-> IF openai_api_key = "" THEN "" ELSE SystemPrompt(tone),
                  svc |-> IF out.calls > 0 \/ svc.kind = "fails_before_call"
                          THEN svc ELSE [kind |-> "none"],
                  raised |-> out.raised, ret |-> out.ret, calls |-> out.calls]
    /\ UNCHANGED <<now, dbVars, reportWidgets, metricWidgets, openai_api_key>>

-----------------------------------------------------------------------------
(* Specifications *)

Init ==
    /\ now = 0
    /\ players = <<>>
    /\ sessions = <<>>
    /\ attendance = <<>>
    /\ video_notes = <<>>
    /\ metrics = <<>>
    /\ parent_msgs = <<>>
    /\ sqlite_sequence = [t \in Tables |-> 0]
    /\ r_player = <<>>
    /\ days = DefaultDays
    /\ m_made = 0
    /\ m_attempt = 0
    /\ m_scheme = "rebound_total (85/75/65/55)"
    /\ openai_api_key = ""
    /\ ai = NoCall

\* metric inputs of the store's state machine: no attempt, and 83.3, which the
\* two schemes grade differently
MetricInputs == {<<0, 0>>, <<5, 6>>}

\* rows ever inserted, over all tables
RowsEver == sqlite_sequence["players"] + sqlite_sequence["sessions"] + sqlite_sequence["attendance"]
            + sqlite_sequence["video_notes"] + sqlite_sequence["metrics"]
            + sqlite_sequence["parent_msgs"]

\* tabs 1 and 2: players, sessions and attendance; the date widget is left at its
\* default, today
Next ==
    \/ Tick
    \/ \E name \in NameInputs : RowsEver < MaxRowsEver /\ AddPlayer(name)
    \/ \E del_id \in 0..NextId("players") : DeletePlayer(del_id)
    \/ RowsEver < MaxRowsEver /\ SaveSession(today)
    \/ \E session_id \in Ids(sessions) : \E vals \in [Ids(players) -> AttInputs] :
          /\ RowsEver + Cardinality({q \in Ids(players) : AttIndex(session_id, q) = {}})
                <= MaxRowsEver
          /\ SaveAttendance(session_id, vals)

Spec == Init /\ [][Next]_vars

\* the values of one attendance line left at the widgets' defaults
DefaultAtt == [present |-> 1, intensity |-> 6, mood |-> 6, memo |-> ""]

\* every record-keeping handler of the five tabs, over all six tables
NextStore ==
    \/ Tick
    \/ \E name \in {<<>>, <<" ", "a", "b">>} : RowsEver < MaxStoreRows /\ AddPlayer(name)
    \/ \E del_id \in 0..NextId("players") : DeletePlayer(del_id)
    \/ RowsEver < MaxStoreRows /\ SaveSession(today)
    \/ \E session_id \in Ids(sessions) :
          /\ RowsEver + Cardinality({q \in Ids(players) : AttIndex(session_id, q) = {}})
                <= MaxStoreRows
          /\ SaveAttendance(session_id, [q \in Ids(players) |-> DefaultAtt])
    \/ \E note \in {<<>>, <<" ", "n">>} :
          RowsEver < MaxStoreRows /\ SaveNote(today, <<"a", "b">>, note)
    \/ \E player \in {<<" ">>, <<"a", "b">>} : \E ma \in MetricInputs : \E label \in SchemeLabels :
          RowsEver < MaxStoreRows /\ SaveMetric(today, player, ma[1], ma[2], label)
    \/ \E message \in {<<>>, <<"m">>} :
          RowsEver < MaxStoreRows /\ SaveMsg(today, <<"a", "b">>, message)

SpecStore == Init /\ [][NextStore]_vars

\* Tab 4 alone: the widgets hold any numerator, denominator and scheme, and the
\* save button is clicked with them
InitMetric ==
    /\ now = 0
    /\ players = <<>>
    /\ sessions = <<>>
    /\ attendance = <<>>
    /\ video_notes = <<>>
    /\ metrics = <<>>
    /\ parent_msgs = <<>>
    /\ sqlite_sequence = [t \in Tables |-> 0]
    /\ r_player = <<>>
    /\ days = DefaultDays
    /\ m_made \in 0..MaxMade
    /\ m_attempt \in 0..MaxAttempt
    /\ m_scheme \in SchemeLabels
    /\ openai_api_key = ""
    /\ ai = NoCall

NextMetric ==
    /\ Len(metrics) < MaxMetricClicks
    /\ SaveMetric(today, <<"a", "b">>, m_made, m_attempt, m_scheme)

SpecMetric == InitMetric /\ [][NextMetric]_vars

\* Tab 5's report over a store filled through the handlers, with any date in the
\* date widgets and any filter
ReportDates == (0 - MaxPast)..MaxNow

SubjectInputs == {<<>>, <<"a", "b">>, <<"a", ".">>, <<"b", ",", "a", ".">>}

FilterInputs == {<<>>, <<" ">>, <<"a", "b">>, <<"a", ".", " ">>, <<"b">>, <<"c">>}

NextReport ==
    \/ Tick
    \/ \E name \in {<<"a", "b">>, <<"a", ".">>} : RowsEver < MaxReportRows /\ AddPlayer(name)
    \/ \E del_id \in Ids(players) : DeletePlayer(del_id)
    \/ \E sdate \in ReportDates : RowsEver < MaxReportRows /\ SaveSession(sdate)
    \/ \E session_id \in Ids(sessions) :
          /\ RowsEver + Cardinality({q \in Ids(players) : AttIndex(session_id, q) = {}})
                <= MaxReportRows
          /\ SaveAttendance(session_id,
                            [q \in Ids(players) |-> DefaultAtt])
    \/ \E ndate \in ReportDates : \E subjects \in SubjectInputs :
          RowsEver < MaxReportRows /\ SaveNote(ndate, subjects, <<"n">>)
    \/ \E mdate \in ReportDates : \E player \in {<<"a", "b">>, <<"a", ".">>} :
          RowsEver < MaxReportRows
              /\ SaveMetric(mdate, player, 5, 6, "rebound_total (85/75/65/55)")
    \/ \E player \in FilterInputs : \E n \in {1, DefaultDays} : SetReportInputs(player, n)

SpecReport == Init /\ [][NextReport]_vars

\* Tab 5's report over a long stream: one player's metric is saved day after day
NextCap ==
    \/ Tick
    \/ Len(metrics) < MaxCapRows
          /\ SaveMetric(today, <<"a", "b">>, 5, 6, "rebound_total (85/75/65/55)")
    \/ \E player \in {<<>>, <<"a", "b">>, <<"c">>} : SetReportInputs(player, DefaultDays)

SpecCap == Init /\ [][NextCap]_vars

\* ai_feedback against every behaviour of the external service
NextAi ==
    \/ \E k \in KeyInputs : SetApiKey(k)
    \/ \E tone \in Tones : \E svc \in ServiceOutcomes : ClickAiFeedback(tone, svc)

SpecAi == Init /\ [][NextAi]_vars

\* metric inputs of the five tabs together: no attempt with a numerator typed, 83.3
\* (B under the primary scheme, A under the other), and the tie 1/16
LedgerMetricInputs == {<<3, 0>>, <<5, 6>>, <<1, 16>>}

\* the service raises, or answers with text
LedgerServiceOutcomes ==
    {[kind |-> "call_raises"],
     [kind |-> "response",
      resp |-> [has_output_text |-> TRUE, output_text |-> [type |-> "str", val |-> <<"h", "i">>],
                output |-> <<>>]]}

\* all five tabs on one store: every writing handler, the report widgets and the
\* AI feedback button
NextLedger ==
    \/ RowsEver < MaxLedgerRows /\ AddPlayer(<<"a", "b">>)
    \/ \E del_id \in 0..NextId("players") : DeletePlayer(del_id)
    \/ RowsEver < MaxLedgerRows /\ SaveSession(today)
    \/ \E session_id \in Ids(sessions) :
          /\ RowsEver + Cardinality({q \in Ids(players) : AttIndex(session_id, q) = {}})
                <= MaxLedgerRows
          /\ SaveAttendance(session_id, [q \in Ids(players) |-> DefaultAtt])
    \/ RowsEver < MaxLedgerRows /\ SaveNote(today, <<"a", "b">>, <<"n">>)
    \/ \E ma \in LedgerMetricInputs : \E label \in SchemeLabels :
          RowsEver < MaxLedgerRows /\ SaveMetric(today, <<"a", "b">>, ma[1], ma[2], label)
    \/ RowsEver < MaxLedgerRows /\ SaveMsg(today, <<"a", "b">>, <<"m">>)
    \/ \E player \in {<<>>, <<"a", "b">>} : SetReportInputs(player, DefaultDays)
    \/ \E k \in KeyInputs : SetApiKey(k)
    \/ \E svc \in LedgerServiceOutcomes : ClickAiFeedback("coach", svc)

SpecLedger == Init /\ [][NextLedger]_vars

-----------------------------------------------------------------------------
(* Properties *)

\* the mutable columns of an attendance row
AttValues(r) == [present |-> r.present, intensity |-> r.intensity, mood |-> r.mood, memo |-> r.memo]

\* at most one attendance row per (session_id, player_id)
AttendanceKeyUnique ==
    \A i, j \in 1..Len(attendance) :
        (attendance[i].session_id = attendance[j].session_id
            /\ attendance[i].player_id = attendance[j].player_id) => i = j

\* a step that changes the attendance table is a step of "출석 기록 저장"
OnlySaveAttendanceWrites ==
    attendance' # attendance =>
        \E session_id \in Ids(sessions) : \E vals \in [Ids(players) -> AttInputs] :
            SaveAttendance(session_id, vals)

\* C1: in every reachable state the attendance table holds at most one row per
\* (session_id, player_id), and only the attendance save (the upsert) ever changes
\* the attendance table.
C1_AttendanceUnique == []AttendanceKeyUnique /\ [][OnlySaveAttendanceWrites]_vars

\* two players' rows for one session, saved with different values
C1_Witness ==
    /\ Len(attendance) >= 2
    /\ attendance[1].session_id = attendance[2].session_id
    /\ attendance[1].player_id # attendance[2].player_id
    /\ AttValues(attendance[1]) # AttValues(attendance[2])

\* what a save leaves behind for the listed players' keys, given the submitted values
SavedAsSubmitted(session_id, vals) ==
    \A pid \in Ids(players) :
        /\ Cardinality({i \in 1..Len(attendance') :
                            /\ attendance'[i].session_id = session_id
                            /\ attendance'[i].player_id = pid}) = 1
        /\ \A i \in 1..Len(attendance') :
               (attendance'[i].session_id = session_id /\ attendance'[i].player_id = pid)
                   => AttValues(attendance'[i]) = vals[pid]

\* every row keeps its place, id, key and creation time
RowsKeepIdentity ==
    /\ Len(attendance') >= Len(attendance)
    /\ \A i \in 1..Len(attendance) :
           /\ attendance'[i].id = attendance[i].id
           /\ attendance'[i].session_id = attendance[i].session_id
           /\ attendance'[i].player_id = attendance[i].player_id
           /\ attendance'[i].created_at = attendance[i].created_at

\* C2: a save for a (session_id, player_id) pair that already has a row overwrites
\* present, intensity, mood and memo with the submitted values and leaves the row's
\* id and created_at as they were; after any save there is exactly one row for the
\* pair and it carries the values of that (latest) save.
C2_UpsertOverwrites ==
    [][/\ RowsKeepIdentity
       /\ \A session_id \in Ids(sessions) : \A vals \in [Ids(players) -> AttInputs] :
              SaveAttendance(session_id, vals) => SavedAsSubmitted(session_id, vals)]_vars

\* a row created at time 0 whose player is still listed shares its session with a
\* row created later: the later save of that session went through the older row
C2_Witness ==
    \E i, j \in 1..Len(attendance) :
        /\ attendance[i].session_id = attendance[j].session_id
        /\ attendance[i].player_id \in Ids(players)
        /\ attendance[i].created_at = 0
        /\ attendance[j].created_at > 0

\* the tier tables: (threshold in tenths, grade), descending
Tiers(label) ==
    IF label = "rebound_total (85/75/65/55)"
    THEN <<[min |-> 850, grade |-> "A"], [min |-> 750, grade |-> "B"],
           [min |-> 650, grade |-> "C"], [min |-> 550, grade |-> "D"]>>
    ELSE <<[min |-> 820, grade |-> "A"], [min |-> 720, grade |-> "B"],
           [min |-> 620, grade |-> "C"], [min |-> 520, grade |-> "D"]>>

\* the grade of the first tier whose threshold p reaches, else F
TierGrade(p, label) ==
    LET hit == {i \in 1..Len(Tiers(label)) : p >= Tiers(label)[i].min}
    IN  IF hit = {} THEN "F"
        ELSE Tiers(label)[CHOOSE i \in hit : \A k \in hit : i <= k].grade

\* t tenths is a one-decimal value nearest to made/attempt*100
NearestTenth(t, made, attempt) == 2 * Abs(t * attempt - 1000 * made) <= attempt

\* C3: a metric saved with numerator >= 0 and denominator > 0 stores as percent the
\* one-decimal rounding of numerator/denominator*100 and as grade the tier-table
\* grade of that percent under the chosen scheme, first matching threshold winning:
\* 85.0 is A and 84.9 is B under the primary scheme.
C3_PercentAndGrade ==
    m_attempt > 0 =>
        \A i \in 1..Len(metrics) :
            LET r == metrics[i]
            IN  /\ r.percent # None
                /\ NearestTenth(r.percent[1], m_made, m_attempt)
                /\ r.grade = Some(TierGrade(r.percent[1], m_scheme))
                /\ (m_scheme = "rebound_total (85/75/65/55)" /\ r.percent[1] = 850)
                       => r.grade = Some("A")
                /\ (m_scheme = "rebound_total (85/75/65/55)" /\ r.percent[1] = 849)
                       => r.grade = Some("B")

\* 45/53 is stored as 84.9 with grade B under the primary scheme
C3_Witness ==
    /\ m_attempt > 0
    /\ m_scheme = "rebound_total (85/75/65/55)"
    /\ \E i \in 1..Len(metrics) :
           metrics[i].percent = Some(849) /\ metrics[i].grade = Some("B")

\* C4: a metric saved with denominator 0, whatever the numerator and the scheme,
\* stores neither a percent nor a grade (both null, not 0 and not F).
C4_NoAttemptNoPercent ==
    m_attempt = 0 =>
        \A i \in 1..Len(metrics) : metrics[i].percent = None /\ metrics[i].grade = None

\* a row saved with numerator 3 and denominator 0
C4_Witness ==
    /\ m_attempt = 0
    /\ m_made = 3
    /\ metrics # <<>>

Min(a, b) == IF a <= b THEN a ELSE b

\* rows dated d or later
CountFrom(rows, col, d) == Cardinality({i \in 1..Len(rows) : rows[i][col] >= d})

\* `kept` holds the PayloadCap most recent rows of `stream` (all of them when the
\* stream is no longer than the cap)
MostRecent(kept, stream, col) ==
    /\ Len(kept) = Min(Len(stream), PayloadCap)
    /\ \A i \in 1..Len(stream) :
           CountFrom(kept, col, stream[i][col])
               = Min(PayloadCap, CountFrom(stream, col, stream[i][col]))

\* C5: the payload holds, of each filtered stream, its 50 most recent entries: a
\* filtered stream longer than 50 is cut to exactly the 50 rows with the latest
\* dates, the cut coming after the subject filter.
C5_CapKeepsMostRecent ==
    /\ MostRecent(payload.attendance_summary, att_f, "session_date")
    /\ MostRecent(payload.video_notes, notes_f, "note_date")
    /\ MostRecent(payload.metrics, metrics_f, "metric_date")

\* pat occurs in s, character by character
IsSubstring(pat, s) ==
    \E i \in 1..(Len(s) - Len(pat) + 1) : SubSeq(s, i, i + Len(pat) - 1) = pat

\* no stored record mentions the filter: it is no player's name, no metric's
\* player, and occurs in no note's players field
NamesNoOne(f) ==
    /\ \A i \in 1..Len(players) : players[i].name # f
    /\ \A i \in 1..Len(metrics) : metrics[i].player # f
    /\ \A i \in 1..Len(video_notes) : ~IsSubstring(f, video_notes[i].players)

\* C6: with a filter, the payload's attendance rows all carry the filter as name,
\* its notes all contain the filter in their players field, its metrics all carry
\* the filter as player; without a filter every in-window record of each stream is
\* in the payload (up to the cap); a filter that names no one gives three empty lists.
C6_FilterBySubject ==
    /\ target # <<>> =>
           /\ \A r \in Range(payload.attendance_summary) : r.name = target
           /\ \A r \in Range(payload.video_notes) : IsSubstring(target, r.players)
           /\ \A r \in Range(payload.metrics) : r.player = target
    /\ target = <<>> =>
           /\ \A i \in 1..Len(video_notes) :
                  (InWindow(video_notes[i].note_date) /\ Len(video_notes) <= PayloadCap)
                      => NoteColumns(video_notes[i]) \in Range(payload.video_notes)
           /\ \A i \in 1..Len(metrics) :
                  (InWindow(metrics[i].metric_date) /\ Len(metrics) <= PayloadCap)
                      => MetricColumns(metrics[i]) \in Range(payload.metrics)
           /\ \A j \in Range(ReportJoin) :
                  Len(attendance) <= PayloadCap
                      => AttColumns(j) \in Range(payload.attendance_summary)
    /\ (target # <<>> /\ NamesNoOne(target)) =>
           /\ payload.attendance_summary = <<>>
           /\ payload.video_notes = <<>>
           /\ payload.metrics = <<>>

\* attendance rows whose player row is gone while their session is still there
Dangling == {i \in 1..Len(attendance) : /\ attendance[i].player_id \notin Ids(players)
                                        /\ attendance[i].session_id \in Ids(sessions)}

SessionDate(a) == RowOf(sessions, a.session_id).session_date

\* C7 as stated: every attendance row left without its player still has a row in
\* the per-session listing, and in the report join when its session is in the
\* window, with the subject name missing.
C7_DanglingRowsJoined ==
    \A i \in Dangling :
        /\ \E j \in Range(ListingJoin(attendance[i].session_id)) :
               j.a = attendance[i] /\ j.p = None
        /\ InWindow(SessionDate(attendance[i])) =>
               \E j \in Range(ReportJoin) : j.a = attendance[i] /\ j.p = None

\* the attendance rows a join over these rows should show: player and session both exist
Joinable(rows) == {a \in rows : a.player_id \in Ids(players) /\ a.session_id \in Ids(sessions)}

\* C7, amended: the joins are inner joins.  The per-session listing and the report
\* join hold exactly one row, with the player's name, for each attendance row whose
\* player and session both exist (for the report: whose session date is in the
\* window), and no row for an attendance row whose player was deleted.
C7_JoinsDropDangling ==
    /\ \A sid \in Ids(sessions) :
           LET want == Joinable({a \in Range(attendance) : a.session_id = sid})
           IN  /\ {j.a : j \in Range(ListingJoin(sid))} = want
               /\ Len(AttendanceListing(sid)) = Cardinality(want)
               /\ {r.name : r \in Range(AttendanceListing(sid))}
                      = {RowOf(players, a.player_id).name : a \in want}
    /\ LET want == {a \in Joinable(Range(attendance)) : InWindow(SessionDate(a))}
       IN  /\ {j.a : j \in Range(ReportJoin)} = want
           /\ Len(att) = Cardinality(want)
           /\ {r.name : r \in Range(att)} = {RowOf(players, a.player_id).name : a \in want}

\* a session with one attendance row whose player was deleted and one whose player remains
C7_Witness ==
    \E i \in Dangling : \E k \in 1..Len(attendance) :
        /\ attendance[k].session_id = attendance[i].session_id
        /\ attendance[k].player_id \in Ids(players)
        /\ Len(AttendanceListing(attendance[i].session_id)) = 1

\* a step that takes a row out of players takes out the rows of one id and
\* touches nothing else
RemovalIsExact ==
    (players' # players /\ Len(players') <= Len(players)) =>
        /\ \E d \in Ids(players) : players' = SelectSeq(players, LAMBDA r : r.id # d)
        /\ sessions' = sessions
        /\ attendance' = attendance
        /\ video_notes' = video_notes
        /\ metrics' = metrics
        /\ parent_msgs' = parent_msgs

\* C8: deleting a player by id removes exactly the players row with that id (none
\* when the id does not exist) and leaves every other players row and every row of
\* sessions, attendance, video_notes, metrics and parent_msgs as it was, the
\* attendance rows of the deleted player included.
C8_DeleteNoCascade ==
    [][/\ \A d \in 0..NextId("players") :
              DeletePlayer(d) => players' = SelectSeq(players, LAMBDA r : r.id # d)
       /\ RemovalIsExact]_vars

\* a deleted player's attendance row is still stored, next to rows of other tables
C8_Witness ==
    /\ \E i \in 1..Len(attendance) :
           /\ attendance[i].player_id \notin Ids(players)
           /\ attendance[i].player_id <= sqlite_sequence["players"]
    /\ players # <<>>
    /\ metrics # <<>>

\* the text a response's attribute yields when it is a string
TrimmedOrAbsent(t) == IF Strip(t) # <<>> THEN Some(Strip(t)) ELSE None

\* C9: ai_feedback never raises to its caller.  With an empty key it returns absent
\* and calls nothing; with a key, a failure before, during or after the call gives
\* absent; otherwise it returns the trimmed text, or absent when that is empty.
\* The external service is invoked at most once per call.
C9_AiFeedbackNeverRaises ==
    ai.called =>
        /\ ~ai.raised
        /\ ai.calls <= 1
        /\ ai.key = "" => (ai.ret = None /\ ai.calls = 0)
        /\ (ai.key # "" /\ ai.svc.kind = "fails_before_call") => (ai.ret = None /\ ai.calls = 0)
        /\ (ai.key # "" /\ ai.svc.kind = "call_raises") => (ai.ret = None /\ ai.calls = 1)
        /\ (ai.key # "" /\ ai.svc.kind = "response") =>
               LET r == ai.svc.resp
               IN  /\ ai.calls = 1
                   /\ (r.has_output_text /\ r.output_text.type = "str")
                          => ai.ret = TrimmedOrAbsent(r.output_text.val)
                   /\ (r.has_output_text /\ r.output_text.type = "int" /\ r.output_text.val # <<>>)
                          => ai.ret = None
                   /\ (r.has_output_text /\ r.output_text.type = "int" /\ r.output_text.val = <<>>)
                          => ai.ret = None
                   /\ (r.has_output_text /\ r.output_text.type = "none") => ai.ret = None

\* a call with a key whose request raised, answered with absent
C9_Witness ==
    /\ ai.called
    /\ ai.key # ""
    /\ ai.svc.kind = "call_raises"
    /\ ai.ret = None
    /\ ai.calls = 1

\* the text of the typed chunks of a response's output, concatenated
RECURSIVE ChunkText(_)
ChunkText(chunks) ==
    IF chunks = <<>> THEN <<>>
    ELSE (IF Head(chunks).type = "output_text" THEN Head(chunks).text ELSE <<>>)
             \o ChunkText(Tail(chunks))

\* C10: a response without a direct text attribute, whose text is only in the
\* nested list of typed content chunks, still yields the concatenated, trimmed text
\* of those chunks.
C10_ThirdPathExtracted ==
    (/\ ai.called
     /\ ai.key # ""
     /\ ai.svc.kind = "response"
     /\ ~ai.svc.resp.has_output_text
     /\ Strip(ChunkText(ai.svc.resp.output)) # <<>>)
        => ai.ret = Some(Strip(ChunkText(ai.svc.resp.output)))

\* the columns of a metrics row that the save computes
Measured(r) == [made |-> r.made, attempt |-> r.attempt, percent |-> r.percent, grade |-> r.grade]

\* every stored metrics row is still stored after the step, under its id, with the
\* same numerator, denominator, percent and grade
MetricsRowsKept ==
    \A i \in 1..Len(metrics) :
        \E k \in 1..Len(metrics') :
            /\ metrics'[k].id = metrics[i].id
            /\ Measured(metrics'[k]) = Measured(metrics[i])
            /\ \A l \in 1..Len(metrics') : metrics'[l].id = metrics[i].id => l = k

\* grade absent exactly when percent is absent, else the tier-table grade of the
\* stored percent under one of the two schemes
GradeMatchesPercent ==
    \A i \in 1..Len(metrics) :
        LET r == metrics[i]
        IN  /\ (r.grade = None) <=> (r.percent = None)
            /\ r.percent # None =>
                   \E label \in SchemeLabels : r.grade = Some(TierGrade(r.percent[1], label))

\* C11: metric rows are frozen once written: across any later step (further metric
\* saves with either scheme, player deletion, attendance saves, report builds, AI
\* feedback) every stored metrics row keeps its numerator, denominator, percent and
\* grade; and in every reachable state each metrics row has grade absent exactly
\* when percent is absent, and otherwise the tier-table grade of its stored percent
\* under one of the two schemes.
C11_MetricRowsFrozen == []GradeMatchesPercent /\ [][MetricsRowsKept]_vars

\* 83.3 stored first with grade B (primary scheme), then again with grade A (the
\* other scheme), next to a row without percent; a player was deleted since, and
\* the AI feedback button was clicked with a key
C11_Witness ==
    /\ \E i, j \in 1..Len(metrics) :
           /\ i < j
           /\ metrics[i].percent = Some(833) /\ metrics[i].grade = Some("B")
           /\ metrics[j].percent = Some(833) /\ metrics[j].grade = Some("A")
    /\ \E i \in 1..Len(metrics) : metrics[i].percent = None /\ metrics[i].grade = None
    /\ sqlite_sequence["players"] > 0
    /\ players = <<>>
    /\ ai.called /\ ai.key # ""
    /\ r_player # <<>>

\* the ids a step gives to new players rows
NewPlayerIds == Ids(players') \ Ids(players)

\* an attendance row whose player is gone stays without a player
DanglingStaysDangling ==
    \A i \in 1..Len(attendance) :
        attendance[i].player_id \notin Ids(players) => attendance[i].player_id \notin Ids(players')

\* an add appends one row, with an id no row holds, and leaves every other row as it was
AddAppends ==
    \A name \in NameInputs :
        AddPlayer(name) =>
            /\ Len(players') = Len(players) + 1
            /\ SubSeq(players', 1, Len(players)) = players
            /\ players'[Len(players')].id \notin Ids(players)
            /\ players'[Len(players')].name = Strip(name)

\* the largest id the players table ever assigned, as SQLite records it
PlayerHighWater == sqlite_sequence["players"]

\* every id a players row holds, and every player id an attendance row was saved
\* for, was assigned at or below the recorded high-water mark
AssignedAtOrBelowHighWater ==
    /\ \A id \in Ids(players) : id >= 1 /\ id <= PlayerHighWater
    /\ \A i \in 1..Len(attendance) :
           attendance[i].player_id >= 1 /\ attendance[i].player_id <= PlayerHighWater
    /\ \A i, j \in 1..Len(players) : players[i].id = players[j].id => i = j

\* the mark never falls, and a new players row gets an id above the mark as it
\* stood before the step: above every id assigned up to then
AddsAboveHighWater ==
    /\ sqlite_sequence'["players"] >= PlayerHighWater
    /\ \A n \in NewPlayerIds : n > PlayerHighWater
    /\ (\E name \in NameInputs : AddPlayer(name)) => NewPlayerIds # {}

\* C12: player ids are never reused.  Every id assigned so far lies at or below the
\* high-water mark, the mark never falls (a delete leaves it alone), and each add
\* assigns an id strictly above it, hence above every id ever assigned before; so
\* an attendance row left dangling by a deleted player never becomes attached to a
\* later-registered player; and an add never overwrites an existing players row.
C12_PlayerIdsNeverReused ==
    /\ []AssignedAtOrBelowHighWater
    /\ [][AddsAboveHighWater /\ DanglingStaysDangling /\ AddAppends]_vars

\* the only attendance row belongs to deleted player 1, and the only player, added
\* after that row was saved, has id 2
C12_Witness ==
    /\ Len(attendance) = 1
    /\ attendance[1].player_id = 1
    /\ Len(players) = 1
    /\ players[1].id = 2

====
